---- MODULE Spec2Model ----
(***************************************************************************)
(* Crowd_Tune (src/app.py): the vote ledger, the threshold check and the   *)
(* playlist commit of the Flask handlers create_event and vote, over the   *)
(* two SQLite tables events and votes.                                     *)
(*                                                                         *)
(* Every request runs on its own connection (get_db).  A SELECT is its own *)
(* read; an INSERT/DELETE/UPDATE followed by conn.commit() is one atomic   *)
(* write.  Between two statements of one request the statements of other   *)
(* requests may run: each action below is one statement (or one external   *)
(* call) of a handler together with the local computation that follows it. *)
(***************************************************************************)
EXTENDS Integers, FiniteSets, Sequences, TLC

\* ------------------------------------------------------------------ bounds
\* vote() requests started in one behaviour, per specification
MaxVotes == 3
MaxVotesSeq == 6
MaxVotesCap == 4
MaxVotesCreate == 2
MaxVotesHist == 6
MaxVotesOk == 5
MaxVotesSearch == 2
MaxSearches == 2
MaxVotesStats == 4
MaxStats == 2
MaxVotesEver == 3
MaxVotesTwo == 4

\* event codes str(uuid4())[:8].upper() can take
Codes == {"E1", "E2"}
\* track ids sent as song_id
Songs == {"T1", "T2", "T3", "T4"}
\* session voter ids
Voters == {"A", "B"}
\* request slots: the requests that can be in progress at the same time
Workers == {1, 2}
\* playlist names sent to create_event ("" is a missing or empty name)
PlaylistNames == {"", "P1"}
\* the session's token_info at create_event: 0 is none, 1 a token
SessionTokens == {0, 1}
\* thresholds sent to create_event by the vote specifications
Thresholds == {1, 2}

\* ------------------------------------------------------- program constants
\* if user_vote_count >= 3
VoteLimit == 3
\* data.get('threshold', 5)
DefaultThreshold == 5

\* ------------------------------------------------------------------- state
VARIABLES
    events,         \* table events: code -> row (the columns the handlers use)
    votes,          \* table votes: set of <<event_code, song_id, user_id>>
    playlist,       \* <<code, song>> -> successful playlist_add_items calls
    failed,         \* <<code, song>> whose playlist_add_items call has raised
    pc,             \* per request slot: the statement vote() is about to run
    local,          \* per request slot: the local variables of vote()
    resp,           \* per request slot: the response vote() returned
    nvotes,         \* vote() requests started so far
    last_create,    \* the last create_event request and its response
    hist,           \* history of the requests (kept by SpecHist only)
    search,         \* the search_songs request: position, the row and token it holds
    stats           \* the get_event_stats request: position, what it read, its response

vars == <<events, votes, playlist, failed, pc, local, resp, nvotes, last_create, hist,
          search, stats>>

\* ------------------------------------------------------------ DB helpers
\* list(s): the elements of a set in some order (one order is kept: the
\* text is only ever read back through convert_set)
RECURSIVE SetToSeq(_)
SetToSeq(s) ==
    IF s = {} THEN <<>>
    ELSE LET x == CHOOSE y \in s : TRUE IN <<x>> \o SetToSeq(s \ {x})

\* DBAdapter.adapt_set: json.dumps(list(s)) if s else '[]'.  The JSON text
\* of a list of strings is modelled by the sequence of its items.
adapt_set(s) == IF s # {} THEN SetToSeq(s) ELSE <<>>

\* DBAdapter.convert_set: set(json.loads(s)) if s else set()
convert_set(s) == IF s # <<>> THEN {s[i] : i \in 1..Len(s)} ELSE {}

\* DBAdapter.adapt_json: json.dumps(d) if d else '{}'.  A token_info is
\* modelled by a positive number, no token (None, {}) by 0, the JSON text by
\* the sequence of the token it holds ('{}' holds none).
adapt_json(d) == IF d # 0 THEN <<d>> ELSE <<>>

\* DBAdapter.convert_json: json.loads(d) if d else {}
convert_json(d) == IF d # <<>> THEN d[1] ELSE 0

\* SELECT COUNT(*) FROM votes WHERE event_code = ? AND song_id = ?
CountSong(v, code, song) == Cardinality({r \in v : r[1] = code /\ r[2] = song})

\* (a count that forgets the event: WHERE user_id = ?)
CountUserAnyEvent(v, code, voter) == Cardinality({r \in v : r[3] = voter})

\* SELECT COUNT(*) FROM votes WHERE event_code = ? AND user_id = ?
CountUser(v, code, voter) == Cardinality({r \in v : r[1] = code /\ r[3] = voter})

\* SELECT 1 FROM votes WHERE event_code = ? AND song_id = ? AND user_id = ?
ExistingVote(v, code, song, voter) == <<code, song, voter>> \in v

\* the locals of a request that is not running
NoLocal ==
    [event_code |-> "", song_id |-> "", voter_id |-> "",
     threshold |-> 0, admin_token |-> <<>>, added_songs |-> {},
     is_removing |-> FALSE, action |-> "",
     vote_count |-> 0, user_votes_used |-> 0, dispatch |-> ""]

\* the threshold sent in the request body: absent (given FALSE), a number
\* or numeric text (val), or something int() rejects (numeric FALSE)
NoThreshold == [given |-> FALSE, numeric |-> TRUE, val |-> 0]

GivenThreshold(n) == [given |-> TRUE, numeric |-> TRUE, val |-> n]

BadThreshold == [given |-> TRUE, numeric |-> FALSE, val |-> 0]

\* no create_event request yet
NoCreate ==
    [code |-> "", token_info |-> 0, playlist_name |-> "",
     threshold |-> NoThreshold, api_ok |-> TRUE, status |-> ""]

\* no history: the tables at the start of the running request, the request
\* that ended last with the tally and usage it started from, the
\* <<event, voter>> pairs that were refused a vote at the limit, the
\* <<event, track>> pairs seen in added_songs so far (ever), and for each
\* running request those seen before it started (after)
NoHist ==
    [votes0 |-> {}, events0 |-> <<>>,
     last |-> [event_code |-> "", song_id |-> "", voter_id |-> "", action |-> "",
               tally0 |-> 0, usage0 |-> 0],
     refused |-> {},
     ever |-> {}, after |-> [w \in Workers |-> {}]]

\* no search_songs request running; n counts the requests made
NoSearch ==
    [pc |-> "idle", event_code |-> "", event |-> <<>>, token_info |-> 0, n |-> 0]

\* no get_event_stats request running; n counts the requests made.
\* votes_rows and votes_voters are the votes table as it was when the
\* request ran its two SELECTs on it.
NoStats ==
    [pc |-> "idle", event_code |-> "", status |-> "", threshold |-> 0,
     rows |-> <<>>, songs |-> <<>>, total_voters |-> 0,
     votes_rows |-> {}, votes_voters |-> {}, n |-> 0]

Init ==
    /\ events = <<>>
    /\ votes = {}
    /\ playlist = [k \in Codes \X Songs |-> 0]
    /\ failed = {}
    /\ pc = [w \in Workers |-> "idle"]
    /\ local = [w \in Workers |-> NoLocal]
    /\ resp = [w \in Workers |-> ""]
    /\ nvotes = 0
    /\ last_create = NoCreate
    /\ hist = NoHist
    /\ search = NoSearch
    /\ stats = NoStats

\* --------------------------------------------------------- create_event
\* The row INSERTed by create_event.  The playlist id is the id of the
\* user's playlist of that name (found or created), modelled by the name.
NewEventRow(playlist_name, threshold, token_info) ==
    [playlist_name |-> playlist_name,
     playlist_id   |-> playlist_name,
     threshold     |-> threshold,
     admin_token   |-> adapt_json(token_info),
     added_songs   |-> adapt_set({})]

\* int(data.get('threshold', 5)): the default when the key is absent, the
\* number itself, or a ValueError/TypeError (ok FALSE)
int_threshold(threshold) ==
    IF ~threshold.given THEN [ok |-> TRUE, val |-> DefaultThreshold]
    ELSE IF threshold.numeric THEN [ok |-> TRUE, val |-> threshold.val]
    ELSE [ok |-> FALSE, val |-> 0]

\* (a table without the PRIMARY KEY on code)
InsertNeverRaises(code, table) == FALSE

\* the INSERT INTO events of line 232: the PRIMARY KEY on code makes the
\* INSERT of an existing code raise (sqlite3.IntegrityError)
InsertRaises(code, table) == code \in DOMAIN table

\* (a create_event without the playlist-name check)
create_status_any_name(code, token_info, playlist_name, threshold, api_ok) ==
    IF token_info = 0 THEN "401"
    ELSE IF ~api_ok THEN "400"
    ELSE IF ~int_threshold(threshold).ok THEN "400"
    ELSE IF InsertRaises(code, events) THEN "400"
    ELSE "ok"

\* the response of create_event: 401 without a session token; 400 when a
\* Spotify call raised, the playlist name is empty, int() or the INSERT
\* raised; the success response otherwise
create_status(code, token_info, playlist_name, threshold, api_ok) ==
    IF token_info = 0 THEN "401"
    ELSE IF ~api_ok THEN "400"
    ELSE IF playlist_name = "" THEN "400"
    ELSE IF ~int_threshold(threshold).ok THEN "400"
    ELSE IF InsertRaises(code, events) THEN "400"
    ELSE "ok"

\* POST /api/create-event.  code is the generated event code, api_ok whether
\* the Spotify calls (current_user, playlists) returned.  Every early return
\* and every exception leaves the tables as they were.
create_event(code, token_info, playlist_name, threshold, api_ok) ==
    LET status == create_status(code, token_info, playlist_name, threshold, api_ok)
    IN  /\ IF status = "ok"
           THEN events' = (code :> NewEventRow(playlist_name,
                                      int_threshold(threshold).val, token_info)) @@ events
           ELSE UNCHANGED events
        /\ last_create' = [code |-> code, token_info |-> token_info,
                           playlist_name |-> playlist_name,
                           threshold |-> threshold, api_ok |-> api_ok,
                           status |-> status]
        /\ UNCHANGED <<votes, playlist, failed, pc, local, resp, nvotes, hist, search, stats>>

\* ------------------------------------------------------------------ vote
\* (a vote() without the added-songs guard)
AlreadyAddedNever(song_id, added_songs) == FALSE

\* if song_id in added_songs  (the event's added_songs as read at line 564)
AlreadyAdded(song_id, added_songs) == song_id \in added_songs

\* (a limit check that lets a voter at the limit add one more)
LimitReachedAbove(user_vote_count) == user_vote_count > VoteLimit

\* if user_vote_count >= 3
LimitReached(user_vote_count) == user_vote_count >= VoteLimit

\* (a threshold check that fires only on the vote that reaches the threshold)
ThresholdReachedExactly(vote_count, threshold) == vote_count = threshold

\* if vote_count >= threshold
ThresholdReached(vote_count, threshold) == vote_count >= threshold

\* if token_info  (after convert_json and ensure_valid_token, which returns
\* the token or its refreshed replacement)
TokenTruthy(token_info) == token_info # 0

\* lines 556-558: event_code, song_id, voter_id
Inputs(event_code, song_id, voter_id) ==
    [NoLocal EXCEPT !.event_code = event_code, !.song_id = song_id, !.voter_id = voter_id]

\* (an input check that forgets the voter id)
MissingEventOrSong(event_code, song_id, voter_id) == event_code = "" \/ song_id = ""

\* if not event_code or not song_id or not voter_id
MissingInput(event_code, song_id, voter_id) ==
    event_code = "" \/ song_id = "" \/ voter_id = ""

\* lines 555-576: the inputs, SELECT * FROM events WHERE code = ?, and the
\* added-songs guard.  A request takes the lowest free slot.
VoteBegin(w, event_code, song_id, voter_id) ==
    /\ pc[w] = "idle"
    /\ \A u \in Workers : u < w => pc[u] # "idle"
    /\ nvotes' = nvotes + 1
    /\ IF MissingInput(event_code, song_id, voter_id)
       THEN /\ resp' = [resp EXCEPT ![w] = "missing"]
            /\ pc' = [pc EXCEPT ![w] = "done"]
            /\ local' = [local EXCEPT ![w] = Inputs(event_code, song_id, voter_id)]
       ELSE IF event_code \notin DOMAIN events
       THEN /\ resp' = [resp EXCEPT ![w] = "invalid_event"]
            /\ pc' = [pc EXCEPT ![w] = "done"]
            /\ local' = [local EXCEPT ![w] = Inputs(event_code, song_id, voter_id)]
       ELSE LET event == events[event_code]
                added_songs == convert_set(event.added_songs)
                l == [Inputs(event_code, song_id, voter_id) EXCEPT
                                     !.threshold = event.threshold,
                                     !.admin_token = event.admin_token,
                                     !.added_songs = added_songs]
            IN  /\ local' = [local EXCEPT ![w] = l]
                /\ IF AlreadyAdded(song_id, added_songs)
                   THEN /\ resp' = [resp EXCEPT ![w] = "already_added"]
                        /\ pc' = [pc EXCEPT ![w] = "done"]
                   ELSE /\ pc' = [pc EXCEPT ![w] = "existing"]
                        /\ UNCHANGED resp
    /\ UNCHANGED <<events, votes, playlist, failed, last_create, search, stats>>

\* lines 581-583: existing_vote, is_removing
VoteExisting(w) ==
    /\ pc[w] = "existing"
    /\ LET l == local[w]
           is_removing == ExistingVote(votes, l.event_code, l.song_id, l.voter_id)
       IN  /\ local' = [local EXCEPT ![w].is_removing = is_removing]
           /\ pc' = [pc EXCEPT ![w] = IF is_removing THEN "toggle" ELSE "limit"]
    /\ UNCHANGED <<events, votes, playlist, failed, resp, nvotes, last_create, hist, search, stats>>

\* lines 586-594: the vote limit, only if adding
VoteLimitCheck(w) ==
    /\ pc[w] = "limit"
    /\ LET l == local[w]
           user_vote_count == CountUser(votes, l.event_code, l.voter_id)
       IN  IF LimitReached(user_vote_count)
           THEN /\ resp' = [resp EXCEPT ![w] = "vote_limit_reached"]
                /\ pc' = [pc EXCEPT ![w] = "done"]
           ELSE /\ pc' = [pc EXCEPT ![w] = "toggle"]
                /\ UNCHANGED resp
    /\ UNCHANGED <<events, votes, playlist, failed, local, nvotes, last_create, hist, search, stats>>

\* (a DELETE that forgets the song: WHERE event_code = ? AND user_id = ?)
DeleteVotesOfUser(v, code, song, voter) == {r \in v : ~(r[1] = code /\ r[3] = voter)}

\* DELETE FROM votes WHERE event_code = ? AND song_id = ? AND user_id = ?
DeleteVote(v, code, song, voter) == v \ {<<code, song, voter>>}

\* INSERT INTO votes (event_code, song_id, user_id) VALUES (?, ?, ?)
InsertVote(v, code, song, voter) == v \cup {<<code, song, voter>>}

\* (a votes table without its PRIMARY KEY)
VoteInsertNeverRaises(v, code, song, voter) == FALSE

\* PRIMARY KEY (event_code, song_id, user_id), line 71: the INSERT of a row
\* that is in the table raises sqlite3.IntegrityError
VoteInsertRaises(v, code, song, voter) == <<code, song, voter>> \in v

\* lines 597-605: DELETE or INSERT, then commit.  The INSERT of a row that
\* another request has inserted meanwhile violates the PRIMARY KEY: the
\* IntegrityError is caught at line 658 and the request ends in an error.
VoteToggle(w) ==
    /\ pc[w] = "toggle"
    /\ LET l == local[w]
           row == <<l.event_code, l.song_id, l.voter_id>>
       IN  IF l.is_removing
           THEN /\ votes' = DeleteVote(votes, l.event_code, l.song_id, l.voter_id)
                /\ local' = [local EXCEPT ![w].action = "removed"]
                /\ pc' = [pc EXCEPT ![w] = "tally"]
                /\ UNCHANGED resp
           ELSE IF VoteInsertRaises(votes, l.event_code, l.song_id, l.voter_id)
           THEN /\ resp' = [resp EXCEPT ![w] = "exception"]
                /\ pc' = [pc EXCEPT ![w] = "done"]
                /\ UNCHANGED <<votes, local>>
           ELSE /\ votes' = InsertVote(votes, l.event_code, l.song_id, l.voter_id)
                /\ local' = [local EXCEPT ![w].action = "added"]
                /\ pc' = [pc EXCEPT ![w] = "tally"]
                /\ UNCHANGED resp
    /\ UNCHANGED <<events, playlist, failed, nvotes, last_create, hist, search, stats>>

\* lines 608-609: vote_count
VoteTally(w) ==
    /\ pc[w] = "tally"
    /\ LET l == local[w]
       IN  local' = [local EXCEPT ![w].vote_count =
                        CountSong(votes, l.event_code, l.song_id)]
    /\ pc' = [pc EXCEPT ![w] = "usage"]
    /\ UNCHANGED <<events, votes, playlist, failed, resp, nvotes, last_create, hist, search, stats>>

\* lines 610-626 and 650-656: user_votes_used, then the threshold check and
\* the token; without a dispatch the request returns threshold_reached false
VoteUsage(w) ==
    /\ pc[w] = "usage"
    /\ LET l == local[w]
           token_info == convert_json(l.admin_token)
       IN  /\ local' = [local EXCEPT ![w].user_votes_used =
                            CountUser(votes, l.event_code, l.voter_id)]
           /\ IF ThresholdReached(l.vote_count, l.threshold) /\ TokenTruthy(token_info)
              THEN /\ pc' = [pc EXCEPT ![w] = "dispatch"]
                   /\ UNCHANGED resp
              ELSE /\ pc' = [pc EXCEPT ![w] = "done"]
                   /\ resp' = [resp EXCEPT ![w] = "toggled"]
    /\ UNCHANGED <<events, votes, playlist, failed, nvotes, last_create, hist, search, stats>>

\* (a vote() that marks the song as added whether or not the call returned)
AfterDispatchAlwaysMark(ok) == "mark"

\* where vote() goes after sp.playlist_add_items: on to the UPDATE when it
\* returned, to the except clause of line 646 when it raised
AfterDispatch(ok) == IF ok THEN "mark" ELSE "done"

\* (an except clause that undoes the request's toggle)
VotesRolledBack(v, row, action) == IF action = "added" THEN v \ {row} ELSE v \cup {row}

\* the votes table after the except clause of lines 646-648: the toggle was
\* committed at line 605 and the clause only builds the error response
VotesOnDispatchError(v, row, action) == v

\* line 628: sp.playlist_add_items(playlist_id, [track]), which returns (ok)
\* or raises; lines 646-648 when it raised
VoteDispatch(w, ok) ==
    /\ pc[w] = "dispatch"
    /\ LET l == local[w]
           k == <<l.event_code, l.song_id>>
       IN  /\ IF ok
              THEN /\ playlist' = [playlist EXCEPT ![k] = @ + 1]
                   /\ UNCHANGED failed
              ELSE /\ failed' = failed \cup {k}
                   /\ UNCHANGED playlist
           /\ votes' = IF ok THEN votes
                      ELSE VotesOnDispatchError(votes,
                               <<l.event_code, l.song_id, l.voter_id>>, l.action)
           /\ local' = [local EXCEPT ![w].dispatch = IF ok THEN "ok" ELSE "raised"]
           /\ pc' = [pc EXCEPT ![w] = AfterDispatch(ok)]
           /\ resp' = [resp EXCEPT ![w] =
                          IF AfterDispatch(ok) = "done" THEN "dispatch_error" ELSE @]
    /\ UNCHANGED <<events, nvotes, last_create, hist, search, stats>>

\* lines 631-645: added_songs.add(song_id), UPDATE events SET added_songs,
\* commit, and the threshold_reached response.  added_songs is the set the
\* request read at line 570.
VoteMark(w) ==
    /\ pc[w] = "mark"
    /\ LET l == local[w]
           added_songs == l.added_songs \cup {l.song_id}
       IN  /\ events' = [events EXCEPT ![l.event_code].added_songs = adapt_set(added_songs)]
           /\ local' = [local EXCEPT ![w].added_songs = added_songs]
    /\ pc' = [pc EXCEPT ![w] = "done"]
    /\ resp' = [resp EXCEPT ![w] = "threshold_reached"]
    /\ UNCHANGED <<votes, playlist, failed, nvotes, last_create, hist, search, stats>>

\* the response has been sent: the slot is free again
VoteReturn(w) ==
    /\ pc[w] = "done"
    /\ pc' = [pc EXCEPT ![w] = "idle"]
    /\ local' = [local EXCEPT ![w] = NoLocal]
    /\ resp' = [resp EXCEPT ![w] = ""]
    /\ UNCHANGED <<events, votes, playlist, failed, nvotes, last_create, search, stats>>

\* ---------------------------------------------------------- search_songs
\* ensure_valid_token, lines 420-430: the token itself, or the new token
\* of refresh_access_token when the token has expired (a token is modelled
\* by a number, the refreshed one by the next number)
ensure_valid_token(token_info, expired) ==
    IF expired THEN token_info + 1 ELSE token_info

\* (an UPDATE that writes back the whole row the request read)
UpdateWholeRow(table, code, row, token_info) ==
    [table EXCEPT ![code] = [row EXCEPT !.admin_token = adapt_json(token_info)]]

\* UPDATE events SET admin_token = ? WHERE code = ?  (lines 476-479)
UpdateAdminToken(table, code, row, token_info) ==
    [table EXCEPT ![code].admin_token = adapt_json(token_info)]

\* lines 446-471: a search without a session token, for the event of the
\* session: SELECT * FROM events, the stored token, ensure_valid_token.
\* Without an event row the answer is 401 and nothing else happens.
SearchRead(event_code, expired) ==
    /\ search.pc = "idle"
    /\ search.n < MaxSearches
    /\ IF event_code \in DOMAIN events /\ convert_json(events[event_code].admin_token) # 0
       THEN search' = [pc |-> "update", event_code |-> event_code,
                       event |-> events[event_code],
                       token_info |-> ensure_valid_token(
                           convert_json(events[event_code].admin_token), expired),
                       n |-> search.n + 1]
       ELSE search' = [search EXCEPT !.pc = "done", !.event_code = event_code,
                                     !.n = @ + 1]
    /\ UNCHANGED <<events, votes, playlist, failed, pc, local, resp, nvotes,
                   last_create, hist, stats>>

\* lines 474-479: source is "Event Admin", the token is written to the event
SearchUpdate ==
    /\ search.pc = "update"
    /\ events' = UpdateAdminToken(events, search.event_code, search.event,
                                  search.token_info)
    /\ search' = [search EXCEPT !.pc = "done"]
    /\ UNCHANGED <<votes, playlist, failed, pc, local, resp, nvotes, last_create, hist, stats>>

\* lines 481-532: the Spotify search and the reads of votes and added_songs
\* that build the response; nothing is written
SearchReturn ==
    /\ search.pc = "done"
    /\ search' = [NoSearch EXCEPT !.n = search.n]
    /\ UNCHANGED <<events, votes, playlist, failed, pc, local, resp, nvotes,
                   last_create, hist, stats>>

\* ------------------------------------------------------- get_event_stats
\* the order in which GROUP BY song_id returns its groups
SongOrder == <<"T1", "T2", "T3", "T4">>

\* SELECT song_id, COUNT(*) as count FROM votes WHERE event_code = ?
\* GROUP BY song_id: one row per song_id that has rows, in song_id order
RECURSIVE GroupBySong(_, _, _)
GroupBySong(v, code, i) ==
    IF i > Len(SongOrder) THEN <<>>
    ELSE LET song == SongOrder[i]
             rest == GroupBySong(v, code, i + 1)
         IN  IF CountSong(v, code, song) = 0 THEN rest
             ELSE <<[song_id |-> song, count |-> CountSong(v, code, song)]>> \o rest

\* SELECT COUNT(DISTINCT user_id) FROM votes WHERE event_code = ?
CountDistinctUsers(v, code) == Cardinality({r[3] : r \in {q \in v : q[1] = code}})

\* (list.sort(key=votes) without reverse=True: x goes after the elements
\* whose votes are at most its own)
InsertAscending(x, sorted) ==
    LET before == SelectSeq(sorted, LAMBDA y : y.votes <= x.votes)
        after  == SelectSeq(sorted, LAMBDA y : y.votes > x.votes)
    IN  before \o <<x>> \o after

\* one element placed by the stable descending sort: x goes after the
\* elements whose votes are at least its own
InsertDescending(x, sorted) ==
    LET before == SelectSeq(sorted, LAMBDA y : y.votes >= x.votes)
        after  == SelectSeq(sorted, LAMBDA y : y.votes < x.votes)
    IN  before \o <<x>> \o after

\* songs_data.sort(key=lambda x: x['votes'], reverse=True), line 686
RECURSIVE SortByVotes(_)
SortByVotes(songs_data) ==
    IF songs_data = <<>> THEN <<>>
    ELSE InsertDescending(songs_data[Len(songs_data)],
                          SortByVotes(SubSeq(songs_data, 1, Len(songs_data) - 1)))

\* lines 679-684: one entry of songs_data per row
SongsData(rows, threshold) ==
    [i \in 1..Len(rows) |->
        [song_id |-> rows[i].song_id, votes |-> rows[i].count, threshold |-> threshold]]

\* lines 667-674: SELECT threshold FROM events (404 without a row), then
\* the GROUP BY query
StatsRows(event_code) ==
    /\ stats.pc = "idle"
    /\ stats.n < MaxStats
    /\ IF event_code \notin DOMAIN events
       THEN stats' = [NoStats EXCEPT !.pc = "done", !.event_code = event_code,
                                     !.status = "404", !.n = stats.n + 1]
       ELSE stats' = [NoStats EXCEPT !.pc = "voters", !.event_code = event_code,
                                     !.threshold = events[event_code].threshold,
                                     !.rows = GroupBySong(votes, event_code, 1),
                                     !.votes_rows = votes,
                                     !.n = stats.n + 1]
    /\ UNCHANGED <<events, votes, playlist, failed, pc, local, resp, nvotes,
                   last_create, hist, search>>

\* lines 676-692: the COUNT(DISTINCT user_id) query, songs_data, the sort
\* and the response
StatsVoters ==
    /\ stats.pc = "voters"
    /\ stats' = [stats EXCEPT
                    !.pc = "done", !.status = "ok",
                    !.total_voters = CountDistinctUsers(votes, stats.event_code),
                    !.votes_voters = votes,
                    !.songs = SortByVotes(SongsData(stats.rows, stats.threshold))]
    /\ UNCHANGED <<events, votes, playlist, failed, pc, local, resp, nvotes,
                   last_create, hist, search>>

\* the response has been sent
StatsReturn ==
    /\ stats.pc = "done"
    /\ stats' = [NoStats EXCEPT !.n = stats.n]
    /\ UNCHANGED <<events, votes, playlist, failed, pc, local, resp, nvotes,
                   last_create, hist, search>>

\* -------------------------------------------------------- specifications
\* a create_event request that stores an event: a fresh code drawn from
\* codes, a session token, a playlist name, a threshold drawn from thresholds
CreateStep(codes, thresholds) ==
    \E code \in codes \ DOMAIN events, threshold \in thresholds :
        create_event(code, 1, "P1", GivenThreshold(threshold), TRUE)

\* the start of a vote request with inputs drawn from the given sets ("" is
\* a missing input), while fewer than max requests have been started
BeginStep(w, max, codes, songs, voters) ==
    /\ nvotes < max
    /\ \E event_code \in codes \cup {""}, song_id \in songs \cup {""},
          voter_id \in voters \cup {""} :
           VoteBegin(w, event_code, song_id, voter_id)

VoteMiddle(w) ==
    \/ VoteExisting(w)
    \/ VoteLimitCheck(w)
    \/ VoteToggle(w)
    \/ VoteTally(w)
    \/ VoteUsage(w)
    \/ \E ok \in BOOLEAN : VoteDispatch(w, ok)
    \/ VoteMark(w)

VoteStep(w) ==
    \/ VoteMiddle(w)
    \/ VoteReturn(w) /\ UNCHANGED hist

\* Spec: requests interleave statement by statement; one event (the code E2
\* is sent too and names no event), two tracks, two voters
Next ==
    \/ CreateStep({"E1"}, Thresholds)
    \/ \E w \in Workers : BeginStep(w, MaxVotes, Codes, {"T1", "T2"}, Voters) /\ UNCHANGED hist
    \/ \E w \in Workers : VoteStep(w)

Spec == Init /\ [][Next]_vars

\* SpecSeq: requests run to completion one at a time; one event, every track
\* and voter
NoneRunning == \A w \in Workers : pc[w] = "idle"

NextSeq ==
    \/ NoneRunning /\ CreateStep({"E1"}, Thresholds)
    \/ NoneRunning /\ \E w \in Workers : BeginStep(w, MaxVotesSeq, {"E1"}, Songs, Voters) /\ UNCHANGED hist
    \/ \E w \in Workers : VoteStep(w)

SpecSeq == Init /\ [][NextSeq]_vars

\* SpecCap: the requests of one voter in one event interleave; every track
NextCap ==
    \/ CreateStep({"E1"}, Thresholds)
    \/ \E w \in Workers : BeginStep(w, MaxVotesCap, {"E1"}, Songs, {"A"}) /\ UNCHANGED hist
    \/ \E w \in Workers : VoteStep(w)

SpecCap == Init /\ [][NextCap]_vars

\* SpecCreate: create_event requests of every kind (no token, no name, a
\* failing Spotify call, a colliding code, any threshold) between the vote
\* requests of one voter on one track of event E1, one request at a time
ThresholdInputs == {NoThreshold, BadThreshold} \cup {GivenThreshold(n) : n \in {-1, 0, 1}}

CreateAny ==
    \E code \in Codes, token_info \in SessionTokens, playlist_name \in PlaylistNames,
       threshold \in ThresholdInputs, api_ok \in BOOLEAN :
        create_event(code, token_info, playlist_name, threshold, api_ok)

NextCreate ==
    \/ NoneRunning /\ CreateAny
    \/ NoneRunning /\ \E w \in Workers : BeginStep(w, MaxVotesCreate, {"E1"}, {"T1"}, {"A"}) /\ UNCHANGED hist
    \/ \E w \in Workers : VoteStep(w)

SpecCreate == Init /\ [][NextCreate]_vars

\* SpecHist: one request at a time with the history kept: the start of a
\* request records the tables it starts from, its end records the request.
\* Voter A votes on every track, voter B on T1 only.
HistAtBegin == [hist EXCEPT !.votes0 = votes, !.events0 = events]

HistAtReturn(w) ==
    LET l == local[w]
    IN  [hist EXCEPT
            !.last = [event_code |-> l.event_code, song_id |-> l.song_id,
                      voter_id |-> l.voter_id, action |-> l.action,
                      tally0 |-> CountSong(hist.votes0, l.event_code, l.song_id),
                      usage0 |-> CountUser(hist.votes0, l.event_code, l.voter_id)],
            !.refused = IF resp[w] = "vote_limit_reached"
                        THEN @ \cup {<<l.event_code, l.voter_id>>} ELSE @]

NextHist ==
    \/ NoneRunning /\ CreateStep({"E1"}, Thresholds)
    \/ NoneRunning /\ \E w \in Workers :
           BeginStep(w, MaxVotesHist, {"E1"}, Songs, {"A"}) /\ hist' = HistAtBegin
    \/ NoneRunning /\ \E w \in Workers :
           BeginStep(w, MaxVotesHist, {"E1"}, {"T1"}, {"B"}) /\ hist' = HistAtBegin
    \/ \E w \in Workers : VoteMiddle(w)
    \/ \E w \in Workers : VoteReturn(w) /\ hist' = HistAtReturn(w)

SpecHist == Init /\ [][NextHist]_vars

\* SpecEver: interleaved requests, with the tracks that have been in
\* added_songs remembered: they are looked up when a request starts and
\* when one ends, and a request keeps those known at its start
CommittedNow ==
    {k \in Codes \X Songs : k[1] \in DOMAIN events
                              /\ k[2] \in convert_set(events[k[1]].added_songs)}

EverAtBegin(w) ==
    [hist EXCEPT !.ever = @ \cup CommittedNow,
                 !.after[w] = hist.ever \cup CommittedNow]

EverAtReturn(w) ==
    [hist EXCEPT !.ever = @ \cup CommittedNow, !.after[w] = {}]

NextEver ==
    \/ CreateStep({"E1"}, Thresholds)
    \/ \E w \in Workers :
           BeginStep(w, MaxVotesEver, {"E1"}, {"T1", "T2"}, Voters)
           /\ hist' = EverAtBegin(w)
    \/ \E w \in Workers : VoteMiddle(w)
    \/ \E w \in Workers : VoteReturn(w) /\ hist' = EverAtReturn(w)

SpecEver == Init /\ [][NextEver]_vars

\* SpecTwo: two events; the requests of one event run one at a time, the
\* requests of the two events interleave.  Voter A votes on three tracks
\* of E1 and one track of E2.
\* a request for the event is running
Busy(code) == \E w \in Workers : pc[w] # "idle" /\ local[w].event_code = code

NextTwo ==
    \/ CreateStep(Codes, Thresholds)
    \/ ~Busy("E1") /\ \E w \in Workers :
           BeginStep(w, MaxVotesTwo, {"E1"}, {"T1", "T2", "T3"}, {"A"}) /\ UNCHANGED hist
    \/ ~Busy("E2") /\ \E w \in Workers :
           BeginStep(w, MaxVotesTwo, {"E2"}, {"T1"}, {"A"}) /\ UNCHANGED hist
    \/ \E w \in Workers : VoteStep(w)

SpecTwo == Init /\ [][NextTwo]_vars

\* SpecOk: one request at a time, three voters, and a playlist service
\* that accepts every dispatch
NextOk ==
    \/ NoneRunning /\ CreateStep({"E1"}, Thresholds)
    \/ NoneRunning /\ \E w \in Workers :
           BeginStep(w, MaxVotesOk, {"E1"}, {"T1", "T2"}, Voters \cup {"C"})
           /\ UNCHANGED hist
    \/ \E w \in Workers :
           \/ VoteExisting(w)
           \/ VoteLimitCheck(w)
           \/ VoteToggle(w)
           \/ VoteTally(w)
           \/ VoteUsage(w)
           \/ VoteDispatch(w, TRUE)
           \/ VoteMark(w)
           \/ VoteReturn(w) /\ UNCHANGED hist

SpecOk == Init /\ [][NextOk]_vars

\* SpecSearch: votes and search_songs requests interleaved
SearchStep ==
    \/ \E event_code \in Codes, expired \in BOOLEAN : SearchRead(event_code, expired)
    \/ SearchUpdate
    \/ SearchReturn

NextSearch ==
    \/ CreateStep({"E1"}, Thresholds)
    \/ \E w \in Workers :
           BeginStep(w, MaxVotesSearch, {"E1"}, {"T1"}, Voters) /\ UNCHANGED hist
    \/ \E w \in Workers : VoteStep(w)
    \/ SearchStep

SpecSearch == Init /\ [][NextSearch]_vars

\* SpecStats: votes one at a time, get_event_stats requests interleaved
\* with their steps
StatsStep ==
    \/ \E event_code \in Codes : StatsRows(event_code)
    \/ StatsVoters
    \/ StatsReturn

NextStats ==
    \/ NoneRunning /\ CreateStep({"E1"}, Thresholds)
    \/ NoneRunning /\ \E w \in Workers :
           BeginStep(w, MaxVotesStats, {"E1"}, {"T1", "T2"}, Voters) /\ UNCHANGED hist
    \/ \E w \in Workers : VoteStep(w)
    \/ StatsStep

SpecStats == Init /\ [][NextStats]_vars

\* ------------------------------------------------------------ properties
\* usage(event, voter): the vote rows of a voter in an event
usage(code, voter) == CountUser(votes, code, voter)

\* tally(event, track): the vote rows of a track in an event
tally(code, song) == CountSong(votes, code, song)

\* committedTracks of an event
committed(code) == IF code \in DOMAIN events THEN convert_set(events[code].added_songs) ELSE {}

\* C1: when vote() requests run to completion one at a time, every voter has
\* at most 3 vote rows in every event.
C1_UsageAtMostThree == \A code \in Codes, voter \in Voters : usage(code, voter) <= 3

\* C1: a voter holding 3 votes has been refused a fourth
C1_Witness ==
    \E w \in Workers :
        /\ pc[w] = "done"
        /\ resp[w] = "vote_limit_reached"
        /\ usage(local[w].event_code, local[w].voter_id) = 3

\* C2: under any interleaving of vote() requests, playlist_add_items returns
\* successfully at most once for a track of an event.
C2_AtMostOneDispatch ==
    \A code \in Codes, song \in Songs : playlist[<<code, song>>] <= 1

\* C3: also when the requests of one voter interleave, the voter has at most
\* 3 vote rows in the event in every reachable state.
C3_UsageAtMostThreeInterleaved ==
    \A code \in Codes, voter \in Voters :
        Cardinality({song \in Songs : <<code, song, voter>> \in votes}) <= VoteLimit

\* C4: a track in an event's added_songs is in added_songs in every later
\* state, under any interleaving of requests.
C4_AddedSongsOnlyGrow ==
    [][\A code \in DOMAIN events : committed(code) \subseteq committed(code)']_vars

\* C5: every track in an event's added_songs has had a playlist_add_items
\* call for it in that event return successfully.
C5_CommittedAfterDispatch ==
    \A code \in Codes : \A song \in committed(code) : playlist[<<code, song>>] >= 1

\* C5: a request has marked its track as added
C5_Witness ==
    \E w \in Workers :
        /\ pc[w] = "done"
        /\ resp[w] = "threshold_reached"
        /\ local[w].song_id \in committed(local[w].event_code)

\* C6: a request whose dispatch call raised ends in the error response, and
\* its track is not in the event's added_songs when it ends.
C6_FailedDispatchNotCommitted ==
    \A w \in Workers :
        (pc[w] \in {"mark", "done"} /\ local[w].dispatch = "raised") =>
            /\ pc[w] = "done"
            /\ resp[w] = "dispatch_error"
            /\ local[w].song_id \notin committed(local[w].event_code)

\* C6: a request whose tally reached the threshold has ended after its
\* dispatch call raised
C6_Witness ==
    \E w \in Workers :
        /\ pc[w] = "done"
        /\ local[w].dispatch = "raised"
        /\ local[w].vote_count >= local[w].threshold

\* C7: when the dispatch call of a request raised, the request's toggle stays:
\* at its end the row it added is present (the row it removed absent), and
\* the track's tally and the voter's usage are those read after the toggle.
C7_VoteKeptOnDispatchFailure ==
    \A w \in Workers :
        (pc[w] = "done" /\ local[w].dispatch = "raised") =>
            LET l == local[w]
                row == <<l.event_code, l.song_id, l.voter_id>>
            IN  /\ (l.action = "added") => (row \in votes)
                /\ (l.action = "removed") => (row \notin votes)
                /\ tally(l.event_code, l.song_id) = l.vote_count
                /\ usage(l.event_code, l.voter_id) = l.user_votes_used

\* C7: a request that added a vote has ended after its dispatch call raised
C7_Witness ==
    \E w \in Workers :
        /\ pc[w] = "done"
        /\ resp[w] = "dispatch_error"
        /\ local[w].action = "added"
        /\ local[w].user_votes_used >= 1

\* C8: after a dispatch call for a track has raised, every request on that
\* track that leaves its tally at or above the threshold calls dispatch, and
\* when that call returns the request adds the track to added_songs.
C8_RetryAfterFailedDispatch ==
    \A w \in Workers :
        LET l == local[w] IN
        (/\ pc[w] \in {"dispatch", "mark", "done"}
         /\ l.action # ""
         /\ <<l.event_code, l.song_id>> \in failed
         /\ l.vote_count >= l.threshold) =>
            /\ pc[w] = "dispatch" \/ l.dispatch # ""
            /\ (pc[w] = "done" /\ l.dispatch = "ok") =>
                   /\ resp[w] = "threshold_reached"
                   /\ l.song_id \in committed(l.event_code)

\* C8: a track whose dispatch call raised earlier has been committed by a
\* later request
C8_Witness ==
    \E w \in Workers :
        /\ pc[w] = "done"
        /\ resp[w] = "threshold_reached"
        /\ <<local[w].event_code, local[w].song_id>> \in failed
        /\ local[w].song_id \in committed(local[w].event_code)

\* C9: a request that removes the voter's vote never calls dispatch and never
\* adds a track to added_songs.
C9_RemovalNeverDispatches ==
    \A w \in Workers :
        local[w].is_removing =>
            /\ pc[w] \notin {"dispatch", "mark"}
            /\ local[w].dispatch = ""
            /\ resp[w] # "threshold_reached"

\* C10: a request with its three inputs that starts on a track already in
\* the event's added_songs ends at once with the already-added response and
\* changes neither the votes table nor the events table, and calls no
\* dispatch.
C10_AlreadyAddedNoEffect ==
    [][\A w \in Workers :
          (/\ pc[w] = "idle"
           /\ pc'[w] # "idle"
           /\ local'[w].voter_id # ""
           /\ local'[w].song_id \in committed(local'[w].event_code)) =>
              /\ pc'[w] = "done"
              /\ resp'[w] = "already_added"
              /\ votes' = votes
              /\ events' = events
              /\ playlist' = playlist
              /\ failed' = failed]_vars

\* C10: a request on an added track that still has votes has been answered
C10_Witness ==
    \E w \in Workers :
        /\ pc[w] = "done"
        /\ resp[w] = "already_added"
        /\ tally(local[w].event_code, local[w].song_id) >= 1

\* C11: whenever no vote() request is in progress and no dispatch call has
\* raised, every track whose tally is at or above the event's threshold is
\* in the event's added_songs.
C11_ThresholdImpliesCommitted ==
    (NoneRunning /\ failed = {}) =>
        \A code \in DOMAIN events : \A song \in Songs :
            tally(code, song) >= events[code].threshold => song \in committed(code)

\* C14: every stored event has a threshold of at least 1.
C14_ThresholdPositive == \A code \in DOMAIN events : events[code].threshold >= 1

\* C17: a create_event request without a session token or with an empty
\* playlist name gets an error response and leaves the events table as it
\* was; an event that enters the table has an empty added_songs.
C17_CreateValidates ==
    [][/\ (/\ last_create' # last_create
           /\ (last_create'.token_info = 0 \/ last_create'.playlist_name = "")) =>
              /\ last_create'.status \in {"400", "401"}
              /\ events' = events
       /\ \A code \in DOMAIN events' \ DOMAIN events :
              convert_set(events'[code].added_songs) = {}]_vars

\* C17: with an event stored, a request with a token and an empty playlist
\* name has been refused
C17_Witness ==
    /\ DOMAIN events # {}
    /\ last_create.token_info # 0
    /\ last_create.api_ok
    /\ last_create.playlist_name = ""
    /\ last_create.status = "400"

\* C19: a create_event request that succeeds adds an event under a code no
\* stored event has, and no request removes an event or changes its
\* threshold or playlist; a create_event request changes nothing else of a
\* stored event either (its added_songs included).
C19_CodesUniqueConfigImmutable ==
    [][/\ \A code \in DOMAIN events :
              /\ code \in DOMAIN events'
              /\ events'[code].threshold = events[code].threshold
              /\ events'[code].playlist_name = events[code].playlist_name
              /\ events'[code].playlist_id = events[code].playlist_id
              /\ (last_create' # last_create) => (events'[code] = events[code])
       /\ (last_create' # last_create /\ last_create'.status = "ok") =>
              /\ last_create'.code \notin DOMAIN events
              /\ DOMAIN events' = DOMAIN events \cup {last_create'.code}
       /\ (last_create' # last_create /\ last_create'.status # "ok") =>
              events' = events]_vars

\* C19: a valid create_event request whose code is that of a stored event
\* with an added track has been refused
C19_Witness ==
    /\ last_create.status = "400"
    /\ last_create.token_info # 0
    /\ last_create.api_ok
    /\ last_create.playlist_name # ""
    /\ int_threshold(last_create.threshold).ok
    /\ last_create.code \in DOMAIN events
    /\ committed(last_create.code) # {}
    /\ Cardinality(DOMAIN events) = 2

\* C18: a vote() request with a missing event code, song id or voter id, or
\* with an event code that names no event, ends at once with an error
\* response and changes no table and calls no dispatch.
C18_BadRequestNoEffect ==
    [][\A w \in Workers :
          (/\ pc[w] = "idle"
           /\ pc'[w] # "idle"
           /\ \/ local'[w].event_code = ""
              \/ local'[w].song_id = ""
              \/ local'[w].voter_id = ""
              \/ local'[w].event_code \notin DOMAIN events) =>
              /\ pc'[w] = "done"
              /\ resp'[w] \in {"missing", "invalid_event"}
              /\ votes' = votes
              /\ events' = events
              /\ playlist' = playlist
              /\ failed' = failed]_vars

\* C18: with votes and an added track stored, a request naming an unknown
\* event has been refused
C18_Witness ==
    \E w \in Workers :
        /\ pc[w] = "done"
        /\ resp[w] = "invalid_event"
        /\ local[w].event_code \notin DOMAIN events
        /\ votes # {}
        /\ \E code \in DOMAIN events : committed(code) # {}
\* C12: when a voter toggles the same track of the same event twice in
\* succession, one request at a time, and both requests toggled (the track
\* was not committed in between), the track's tally and the voter's usage
\* are back at the values they had before the first toggle.
C12_ToggleTwiceRoundTrip ==
    \A w \in Workers :
        LET l == local[w]
        IN  (/\ pc[w] = "done"
             /\ l.action # ""
             /\ hist.last.action # ""
             /\ hist.last.event_code = l.event_code
             /\ hist.last.song_id = l.song_id
             /\ hist.last.voter_id = l.voter_id) =>
                /\ tally(l.event_code, l.song_id) = hist.last.tally0
                /\ usage(l.event_code, l.voter_id) = hist.last.usage0

C12_Witness ==
    \E w \in Workers :
        /\ pc[w] = "done"
        /\ local[w].action = "removed"
        /\ hist.last.action = "added"
        /\ hist.last.event_code = local[w].event_code
        /\ hist.last.song_id = local[w].song_id
        /\ hist.last.voter_id = local[w].voter_id
        /\ hist.last.tally0 = 1
        /\ hist.last.usage0 = 2

\* C13: one request at a time, an add toggle of a voter whose usage is
\* already 3 is answered vote_limit_reached and leaves the votes and the
\* events as they were; an add toggle of a voter whose usage is below 3
\* (for instance after the voter removed a vote) records the vote.
C13_LimitRejectsThenAccepts ==
    \A w \in Workers :
        LET l == local[w]
            row == <<l.event_code, l.song_id, l.voter_id>>
        IN  (/\ pc[w] = "done"
             /\ resp[w] \notin {"missing", "invalid_event", "already_added"}
             /\ ~l.is_removing) =>
                IF CountUser(hist.votes0, l.event_code, l.voter_id) >= 3
                THEN /\ resp[w] = "vote_limit_reached"
                     /\ votes = hist.votes0
                     /\ events = hist.events0
                ELSE /\ resp[w] # "vote_limit_reached"
                     /\ l.action = "added"
                     /\ row \in votes

C13_Witness ==
    \E w \in Workers :
        LET l == local[w]
        IN  /\ pc[w] = "done"
            /\ l.action = "added"
            /\ resp[w] = "toggled"
            /\ <<l.event_code, l.voter_id>> \in hist.refused
            /\ hist.last.action = "removed"
            /\ hist.last.voter_id = l.voter_id
            /\ hist.last.song_id # l.song_id
            /\ hist.last.song_id \notin committed(l.event_code)
            /\ l.song_id \notin committed(l.event_code)
            /\ usage(l.event_code, l.voter_id) = 3

\* C15: with threshold n, every dispatch accepted and one request at a
\* time: an add that brings the track's tally to fewer than n votes answers
\* without threshold_reached and nothing has been dispatched for the track;
\* the add that brings it to n answers threshold_reached, with exactly one
\* dispatch and the track committed; a later vote on the track is answered
\* already_added and there is still exactly one dispatch.
C15_DispatchAtNthVoter ==
    \A w \in Workers :
        LET l == local[w]
            k == <<l.event_code, l.song_id>>
        IN  /\ (pc[w] = "done" /\ l.action = "added") =>
                   IF tally(l.event_code, l.song_id) < events[l.event_code].threshold
                   THEN /\ resp[w] = "toggled"
                        /\ playlist[k] = 0
                        /\ l.song_id \notin committed(l.event_code)
                   ELSE /\ resp[w] = "threshold_reached"
                        /\ tally(l.event_code, l.song_id) = events[l.event_code].threshold
                        /\ playlist[k] = 1
                        /\ l.song_id \in committed(l.event_code)
            /\ (pc[w] = "done" /\ resp[w] = "already_added") =>
                   /\ playlist[k] = 1
                   /\ tally(l.event_code, l.song_id) = events[l.event_code].threshold

C15_Witness ==
    \E w \in Workers :
        LET l == local[w]
        IN  /\ pc[w] = "done"
            /\ resp[w] = "already_added"
            /\ events[l.event_code].threshold = 2
            /\ tally(l.event_code, l.song_id) = 2
            /\ <<l.event_code, l.song_id, l.voter_id>> \notin votes
            /\ playlist[<<l.event_code, l.song_id>>] = 1

\* C16: the admin_token update of search_songs changes only the credential
\* of its event: the votes, the dispatches, the set of events, every other
\* event, and the event's playlist, threshold and added songs stay as they
\* are, whatever a vote() request has committed since the search read the row.
C16_RefreshChangesOnlyCredential ==
    [][(search.pc = "update" /\ search'.pc # "update") =>
          /\ votes' = votes
          /\ playlist' = playlist
          /\ failed' = failed
          /\ DOMAIN events' = DOMAIN events
          /\ \A code \in DOMAIN events :
                 /\ events'[code].added_songs = events[code].added_songs
                 /\ events'[code].threshold = events[code].threshold
                 /\ events'[code].playlist_id = events[code].playlist_id
                 /\ events'[code].playlist_name = events[code].playlist_name
                 /\ code # search.event_code => events'[code] = events[code]]_vars

C16_Witness ==
    /\ search.pc = "done"
    /\ search.event_code \in DOMAIN events
    /\ search.event # <<>>
    /\ convert_json(events[search.event_code].admin_token) = 2
    /\ convert_set(search.event.added_songs) = {}
    /\ committed(search.event_code) # {}

\* the voters that have a vote row for the track / for any track, in table v
VotersOf(v, code, song) == {u \in Voters : <<code, song, u>> \in v}

VotersIn(v, code) == {u \in Voters : \E song \in Songs : <<code, song, u>> \in v}

\* C20: a successful get_event_stats response lists exactly the tracks that
\* have at least one vote in the event, each once, each with the number of
\* distinct voters that vote for it, in non-increasing order of that
\* number; total_voters is the number of distinct voters with a vote in the
\* event.  Each of the two is exact for the votes table as it was when the
\* request read it.
C20_StatsExact ==
    (stats.pc = "done" /\ stats.status = "ok") =>
        LET code == stats.event_code
            songs == stats.songs
        IN  /\ {songs[i].song_id : i \in 1..Len(songs)} =
                   {song \in Songs : VotersOf(stats.votes_rows, code, song) # {}}
            /\ \A i, j \in 1..Len(songs) : i # j => songs[i].song_id # songs[j].song_id
            /\ \A i \in 1..Len(songs) :
                   songs[i].votes =
                       Cardinality(VotersOf(stats.votes_rows, code, songs[i].song_id))
            /\ \A i, j \in 1..Len(songs) : i < j => songs[i].votes >= songs[j].votes
            /\ stats.total_voters = Cardinality(VotersIn(stats.votes_voters, code))

C20_Witness ==
    /\ stats.pc = "done"
    /\ stats.status = "ok"
    /\ stats.votes_rows = votes
    /\ stats.votes_voters = votes
    /\ Len(stats.songs) = 2
    /\ stats.songs[1].song_id = "T2"
    /\ stats.songs[1].votes = 2
    /\ stats.songs[2].votes = 1
    /\ stats.total_voters = 2

\* C21: the votes table holds at most one row per (event, track, voter): an
\* INSERT only ever acts on a table that does not hold the row.  When two
\* requests of one voter for one track both found no vote, the INSERT of
\* the second ends the request in an error, with the table as it was.
C21_NoDuplicateVoteRow ==
    [][\A w \in Workers :
          LET l == local[w]
              row == <<l.event_code, l.song_id, l.voter_id>>
          IN  (pc[w] = "toggle" /\ pc'[w] # "toggle" /\ ~l.is_removing) =>
                  IF row \in votes
                  THEN /\ votes' = votes
                       /\ pc'[w] = "done"
                       /\ resp'[w] = "exception"
                       /\ local'[w].action = ""
                  ELSE /\ votes' = votes \cup {row}
                       /\ local'[w].action = "added"]_vars

C21_Witness ==
    \E w, w2 \in Workers :
        /\ w # w2
        /\ pc[w] = "done"
        /\ resp[w] = "exception"
        /\ ~local[w].is_removing
        /\ local[w2].event_code = local[w].event_code
        /\ local[w2].song_id = local[w].song_id
        /\ local[w2].voter_id = local[w].voter_id
        /\ local[w2].action = "added"
        /\ tally(local[w].event_code, local[w].song_id) = 1

\* C22: a request that started after its track had been in the event's
\* added_songs changes no vote row, under any interleaving of requests.
C22_CommittedVotesFrozen ==
    [][\A w \in Workers :
          (/\ pc[w] # "idle"
           /\ <<local[w].event_code, local[w].song_id>> \in hist.after[w]
           /\ pc'[w] # pc[w]) =>
              votes' = votes]_vars

\* C23: in every state, under any interleaving of requests, every track in
\* an event's added_songs has at least threshold vote rows.
C23_CommittedAtThreshold ==
    \A code \in DOMAIN events :
        \A song \in committed(code) : tally(code, song) >= events[code].threshold

\* the vote rows of an event in table v
RowsOf(v, code) == {r \in v : r[1] = code}

\* C24: a step of a vote() request for event E leaves the vote rows and the
\* event row of every other event as they were, and changes of E's row
\* only added_songs; a request is refused at the vote limit only when the
\* voter has 3 or more vote rows in E itself.
C24_OtherEventsUntouched ==
    [][\A w \in Workers :
          LET l == local[w]
              own == {song \in Songs : <<l.event_code, song, l.voter_id>> \in votes}
          IN  (pc[w] # "idle" /\ pc'[w] # pc[w]) =>
                  /\ \A code \in Codes \ {l.event_code} :
                         /\ RowsOf(votes', code) = RowsOf(votes, code)
                         /\ code \in DOMAIN events =>
                                code \in DOMAIN events' /\ events'[code] = events[code]
                  /\ DOMAIN events' = DOMAIN events
                  /\ l.event_code \in DOMAIN events =>
                         [events'[l.event_code] EXCEPT !.added_songs = <<>>] =
                         [events[l.event_code] EXCEPT !.added_songs = <<>>]
                  /\ (pc[w] = "limit" /\ ~l.is_removing) =>
                         (resp'[w] = "vote_limit_reached" <=> Cardinality(own) >= 3)]_vars

C24_Witness ==
    \E w \in Workers, code \in Codes :
        /\ pc[w] = "done"
        /\ local[w].action = "added"
        /\ local[w].event_code # code
        /\ Cardinality({song \in Songs : <<code, song, local[w].voter_id>> \in votes}) = 3
        /\ \E w2 \in Workers : pc[w2] # "idle" /\ local[w2].event_code = code

====
